---- MODULE Spec2Model ----
(***************************************************************************)
(* Lineage extraction: the resumable, concurrency-bounded orchestrator of  *)
(* lineage_extractor.py, and the graph builder and traversal of            *)
(* process_lineage_json.py.                                                *)
(*                                                                         *)
(* Strings are sequences of one-character strings, so that the filename    *)
(* sanitisation of process_row and the filename parsing of                 *)
(* build_processed_hashes are computed character by character.             *)
(***************************************************************************)
EXTENDS Integers, Sequences, FiniteSets, TLC

(***************************************************************************)
(* Bounds of the model.                                                    *)
(***************************************************************************)
MaxRecords == 2
MaxCeiling == 2
MaxRuns == 2

(***************************************************************************)
(* Program constants.                                                      *)
(***************************************************************************)
MAX_CONCURRENT_REQUESTS == 1

\* The ceilings the semaphore is built with: the configured one and the
\* larger ones the configuration comment allows ("increase gradually").
Ceilings == MAX_CONCURRENT_REQUESTS..MaxCeiling

(***************************************************************************)
(* Python string operations on character sequences.                        *)
(***************************************************************************)
\* \w of the regular expression, restricted to the characters in use.
WordChars == {"a", "b", "s", "j", "o", "n", "_",
              "0", "1", "2", "3", "4", "5", "6", "7", "8", "9"}

\* \s of the regular expression, restricted to the characters in use.
SpaceChars == {" "}

DigitChars == <<"0", "1", "2", "3", "4", "5", "6", "7", "8", "9">>

\* str(index) for a non-negative integer.
RECURSIVE Str(_)
Str(n) ==
    IF n < 10 THEN <<DigitChars[n + 1]>>
    ELSE Str(n \div 10) \o <<DigitChars[(n % 10) + 1]>>

StartsWith(s, p) == Len(s) >= Len(p) /\ SubSeq(s, 1, Len(p)) = p

\* str.endswith
EndsWith(s, p) ==
    Len(s) >= Len(p) /\ SubSeq(s, Len(s) - Len(p) + 1, Len(s)) = p

\* str.replace(old, new): every non-overlapping occurrence, left to right.
RECURSIVE Replace(_, _, _)
Replace(s, old, new) ==
    IF Len(s) < Len(old) THEN s
    ELSE IF StartsWith(s, old)
         THEN new \o Replace(SubSeq(s, Len(old) + 1, Len(s)), old, new)
         ELSE <<Head(s)>> \o Replace(Tail(s), old, new)

\* str.split(sep): cur is the part being collected.
RECURSIVE SplitFrom(_, _, _)
SplitFrom(s, sep, cur) ==
    IF Len(s) < Len(sep) THEN <<cur \o s>>
    ELSE IF StartsWith(s, sep)
         THEN <<cur>> \o SplitFrom(SubSeq(s, Len(sep) + 1, Len(s)), sep, <<>>)
         ELSE SplitFrom(Tail(s), sep, Append(cur, Head(s)))

Split(s, sep) == SplitFrom(s, sep, <<>>)

RECURSIVE LStrip(_)
LStrip(s) ==
    IF s # <<>> /\ Head(s) \in SpaceChars THEN LStrip(Tail(s)) ELSE s

RECURSIVE RStrip(_)
RStrip(s) ==
    IF s # <<>> /\ s[Len(s)] \in SpaceChars
    THEN RStrip(SubSeq(s, 1, Len(s) - 1))
    ELSE s

\* str.strip()
Strip(s) == RStrip(LStrip(s))

IsKeptChar(c) == c \in WordChars \/ c \in SpaceChars \/ c = "-"

\* re.sub(r"[^\w\s-]", "", s)
RemoveUnsafe(s) == SelectSeq(s, IsKeptChar)

Sep == <<"-", "-">>
DotJson == <<".", "j", "s", "o", "n">>

(***************************************************************************)
(* Identity and the name of a record's artifact.                           *)
(***************************************************************************)
\* md5 is taken to be collision free: the digest stands for the bytes hashed.
md5(bytes) == [digest |-> bytes]

get_hash_for_object(schema_name, object_name) ==
    md5(schema_name \o <<":", ":">> \o object_name)

\* filename_raw and the sanitised filename of process_row.
filename_raw(index, schema_name, object_name) ==
    Str(index) \o Sep \o schema_name \o Sep \o object_name

\* A filename built without the index label of the row.
SafeFilenameNoIndex(index, schema_name, object_name) ==
    Replace(Strip(RemoveUnsafe(Sep \o schema_name \o Sep \o object_name)),
            <<" ">>, <<"_">>) \o DotJson

SafeFilename(index, schema_name, object_name) ==
    Replace(Strip(RemoveUnsafe(filename_raw(index, schema_name, object_name))),
            <<" ">>, <<"_">>) \o DotJson

\* The key one filename adds to the index: a set with no or one hash.
HashesOfFilename(filename) ==
    IF ~EndsWith(filename, DotJson) THEN {}
    ELSE LET parts == Split(Replace(filename, DotJson, <<>>), Sep)
         IN  IF Len(parts) >= 3
             THEN {get_hash_for_object(parts[2], parts[3])}
             ELSE {}

\* build_processed_hashes over the names os.listdir returns.
build_processed_hashes(filenames) ==
    UNION {HashesOfFilename(f) : f \in filenames}

(***************************************************************************)
(* JSON documents.  A document is a record of its kind, the keys it holds  *)
(* when it is an object, and the values of the keys the program reads.     *)
(***************************************************************************)
\* One {source, target} pair of a lineage list.
Edge(src, tgt) == [keys |-> {"source", "target"}, source |-> src, target |-> tgt]

\* {"lineage": [...]}
LineageDocument(items) ==
    [kind |-> "dict", keys |-> {"lineage"}, lineage |-> items, raw_response |-> ""]

\* {} : a JSON object that holds no lineage key.
EmptyObject ==
    [kind |-> "dict", keys |-> {}, lineage |-> <<>>, raw_response |-> ""]

\* The error document of a handler that drops the text it could not parse.
ErrorDocumentNoRaw(text) ==
    [kind |-> "dict", keys |-> {"error", "raw_response"}, lineage |-> <<>>,
     raw_response |-> ""]

\* {"error": "Invalid JSON from model", "raw_response": text}
ErrorDocument(text) ==
    [kind |-> "dict", keys |-> {"error", "raw_response"}, lineage |-> <<>>,
     raw_response |-> text]

\* The texts the generation service answers with.
TextLineage == "{\"lineage\": [{\"source\": \"A\", \"target\": \"B\"}]}"
TextEmptyObject == "{}"
TextNotJson == "not json"

ResponseTexts == {TextLineage, TextEmptyObject, TextNotJson}

\* json.loads on those texts: the value, or JSONDecodeError (ok = FALSE).
json_loads(text) ==
    CASE text = TextLineage ->
            [ok |-> TRUE, value |-> LineageDocument(<<Edge("A", "B")>>)]
      [] text = TextEmptyObject -> [ok |-> TRUE, value |-> EmptyObject]
      [] OTHER -> [ok |-> FALSE, value |-> EmptyObject]

\* The try/except around json.loads: what process_row dumps into the file.
response_data(text) ==
    IF json_loads(text).ok THEN json_loads(text).value ELSE ErrorDocument(text)

(***************************************************************************)
(* The orchestrator: main and its process_row tasks.                       *)
(***************************************************************************)
SchemaNames == {<<"s">>}
ObjectNames == {<<"a">>, <<"b">>, <<"a", ".">>, <<"a", " ", "b">>}

\* df after drop_duplicates(subset=['Schema', 'Object']): rows with distinct
\* (Schema, Object), labelled by distinct indices.  A row is its index label
\* and the two columns process_row reads.
IsDataFrame(rows) ==
    /\ \A i \in DOMAIN rows : rows[i].index = i - 1
    /\ \A i, j \in DOMAIN rows :
          (rows[i].Schema = rows[j].Schema /\ rows[i].Object = rows[j].Object)
              => i = j

DataFrames ==
    UNION {{rows \in [1..n -> [index : 0..(n - 1), Schema : SchemaNames,
                               Object : ObjectNames]] : IsDataFrame(rows)}
           : n \in 1..MaxRecords}

VARIABLES
    df,                \* the rows main iterates over
    ceiling,           \* the value SEM is constructed with
    SEM,               \* the free permits of the semaphore
    permits,           \* the tasks inside the "async with SEM" block
    folder,            \* OUTPUT_FOLDER: filename -> file
    processed_hashes,  \* the set main passes to every process_row
    pc,                \* where each process_row task is
    result,            \* result["response"] of each task, "" before the call returns
    mainpc,            \* where main is
    run,               \* the number of the current run of the script
    prev,              \* pc at the end of the previous run
    json_files,        \* the files glob returns, in the order it returns them
    next_file,         \* the position in json_files the fold loop is at
    skipped_files,     \* the positions whose file printed "Skipping file"
    forward_graph,     \* source -> [targets]
    reverse_graph,     \* target -> [sources]
    TARGET_OBJECT,     \* the root asked for
    DIRECTION,         \* "DOWNSTREAM" or "UPSTREAM"
    gpc,               \* where process_lineage_json.py is
    stack,             \* the frames of get_lineage_edges, innermost last
    visited,           \* the visited set shared by the recursion
    edges,             \* the edge list shared by the recursion
    expanded           \* how often each node passed visited.add

ovars == <<df, ceiling, SEM, permits, folder, processed_hashes, pc, result,
           mainpc, run, prev>>

gvars == <<json_files, next_file, skipped_files, forward_graph, reverse_graph,
           TARGET_OBJECT, DIRECTION, gpc, stack, visited, edges, expanded>>

vars == <<ovars, gvars>>

Tasks == DOMAIN df

KeyOf(i) == get_hash_for_object(df[i].Schema, df[i].Object)

FileOf(i) == SafeFilename(df[i].index, df[i].Schema, df[i].Object)

\* A file: the document dumped into it, and who wrote it, in which run.
File(doc, i) ==
    [doc |-> doc, by |-> <<df[i].Schema, df[i].Object>>, run |-> run]

\* open(file_path, "w") and json.dump: create or overwrite the one file.
WriteFile(files, name, file) ==
    [f \in DOMAIN files \cup {name} |-> IF f = name THEN file ELSE files[f]]

\* A dedup check that never finds the key.
AlreadyProcessedNever(i) == FALSE

\* "if current_hash in processed_hashes"
AlreadyProcessed(i) == KeyOf(i) \in processed_hashes

\* An acquire that takes no permit from the counter.
SemAcquireNoDecrement(value) == value

\* A release that gives no permit back.
SemReleaseNothing(value) == value

\* Semaphore.acquire, Semaphore.release on the counter.
SemAcquire(value) == value - 1
SemRelease(value) == value + 1

\* The graph script is not running while the orchestrator is observed.
GraphIdle ==
    /\ json_files = <<>>
    /\ next_file = 1
    /\ skipped_files = {}
    /\ forward_graph = <<>>
    /\ reverse_graph = <<>>
    /\ TARGET_OBJECT = ""
    /\ DIRECTION = "DOWNSTREAM"
    /\ gpc = "idle"
    /\ stack = <<>>
    /\ visited = {}
    /\ edges = <<>>
    /\ expanded = <<>>

Init ==
    /\ GraphIdle
    /\ df \in DataFrames
    /\ ceiling \in Ceilings
    /\ SEM = ceiling
    /\ permits = {}
    /\ folder = <<>>
    /\ processed_hashes = {}
    /\ pc = [i \in DOMAIN df |-> "start"]
    /\ result = [i \in DOMAIN df |-> ""]
    /\ mainpc = "idle"
    /\ run = 1
    /\ prev = [i \in DOMAIN df |-> "none"]

\* main, up to the creation of the tasks.
MainStart ==
    /\ mainpc = "idle"
    /\ processed_hashes' = build_processed_hashes(DOMAIN folder)
    /\ pc' = [i \in Tasks |-> "start"]
    /\ result' = [i \in Tasks |-> ""]
    /\ mainpc' = "gather"
    /\ UNCHANGED gvars
    /\ UNCHANGED <<df, ceiling, SEM, permits, folder, run, prev>>

\* process_row returns at the dedup check.
TaskSkip(i) ==
    /\ mainpc = "gather"
    /\ pc[i] = "start"
    /\ AlreadyProcessed(i)
    /\ pc' = [pc EXCEPT ![i] = "skipped"]
    /\ UNCHANGED gvars
    /\ UNCHANGED <<df, ceiling, SEM, permits, folder, processed_hashes, result,
                   mainpc, run, prev>>

\* process_row finds no free permit and suspends in SEM.acquire.
TaskWait(i) ==
    /\ mainpc = "gather"
    /\ pc[i] = "start"
    /\ ~AlreadyProcessed(i)
    /\ SEM = 0
    /\ pc' = [pc EXCEPT ![i] = "waiting"]
    /\ UNCHANGED gvars
    /\ UNCHANGED <<df, ceiling, SEM, permits, folder, processed_hashes, result,
                   mainpc, run, prev>>

\* process_row takes a permit and runs up to "await client.generate".
TaskCall(i) ==
    /\ mainpc = "gather"
    /\ \/ pc[i] = "start" /\ ~AlreadyProcessed(i)
       \/ pc[i] = "waiting"
    /\ SEM > 0
    /\ SEM' = SemAcquire(SEM)
    /\ permits' = permits \cup {i}
    /\ pc' = [pc EXCEPT ![i] = "inflight"]
    /\ UNCHANGED gvars
    /\ UNCHANGED <<df, ceiling, folder, processed_hashes, result, mainpc, run,
                   prev>>

\* A return that also adds the key of the record to the index.
CallReturnsAndIndex(i, text) ==
    /\ pc[i] = "inflight"
    /\ result' = [result EXCEPT ![i] = text]
    /\ folder' = WriteFile(folder, FileOf(i), File(response_data(text), i))
    /\ processed_hashes' = processed_hashes \cup {KeyOf(i)}
    /\ SEM' = SemRelease(SEM)
    /\ permits' = permits \ {i}
    /\ pc' = [pc EXCEPT ![i] = "written"]
    /\ UNCHANGED gvars
    /\ UNCHANGED <<df, ceiling, mainpc, run, prev>>

\* client.generate returns: parse, write the artifact, leave the block.
CallReturns(i, text) ==
    /\ pc[i] = "inflight"
    /\ result' = [result EXCEPT ![i] = text]
    /\ folder' = WriteFile(folder, FileOf(i), File(response_data(text), i))
    /\ SEM' = SemRelease(SEM)
    /\ permits' = permits \ {i}
    /\ pc' = [pc EXCEPT ![i] = "written"]
    /\ UNCHANGED gvars
    /\ UNCHANGED <<df, ceiling, processed_hashes, mainpc, run, prev>>

\* client.generate raises: "except Exception" prints, the block is left.
CallRaises(i) ==
    /\ pc[i] = "inflight"
    /\ SEM' = SemRelease(SEM)
    /\ permits' = permits \ {i}
    /\ pc' = [pc EXCEPT ![i] = "failed"]
    /\ UNCHANGED gvars
    /\ UNCHANGED <<df, ceiling, folder, processed_hashes, result, mainpc, run,
                   prev>>

Ended(i) == pc[i] \in {"skipped", "written", "failed"}

\* gather returns once every task has ended.
MainEnd ==
    /\ mainpc = "gather"
    /\ \A i \in Tasks : Ended(i)
    /\ mainpc' = "complete"
    /\ UNCHANGED gvars
    /\ UNCHANGED <<df, ceiling, SEM, permits, folder, processed_hashes, pc,
                   result, run, prev>>

\* The script is started again over the same source and the same folder.
NextRun ==
    /\ mainpc = "complete"
    /\ run < MaxRuns
    /\ run' = run + 1
    /\ prev' = pc
    /\ mainpc' = "idle"
    /\ UNCHANGED gvars
    /\ UNCHANGED <<df, ceiling, SEM, permits, folder, processed_hashes, pc,
                   result>>

Next ==
    \/ MainStart
    \/ \E i \in Tasks : TaskSkip(i)
    \/ \E i \in Tasks : TaskWait(i)
    \/ \E i \in Tasks : TaskCall(i)
    \/ \E i \in Tasks, text \in ResponseTexts : CallReturns(i, text)
    \/ \E i \in Tasks : CallRaises(i)
    \/ MainEnd
    \/ NextRun

Spec == Init /\ [][Next]_vars

(***************************************************************************)
(* The graph builder and the traversal of process_lineage_json.py.         *)
(***************************************************************************)
MaxFiles == 3

Nodes == {"A", "B", "C"}

\* A lineage item that lacks one of its two keys.
SourceOnly(src) == [keys |-> {"source"}, source |-> src, target |-> ""]
TargetOnly(tgt) == [keys |-> {"target"}, source |-> "", target |-> tgt]

\* A file json.load cannot parse, a file open cannot read, a JSON array.
NotJsonFile ==
    [kind |-> "notjson", keys |-> {}, lineage |-> <<>>, raw_response |-> ""]
UnreadableFile ==
    [kind |-> "unreadable", keys |-> {}, lineage |-> <<>>, raw_response |-> ""]
ListDocument ==
    [kind |-> "list", keys |-> {}, lineage |-> <<>>, raw_response |-> ""]

\* The artifact files glob may find in the folder.
ArtifactFiles ==
    { LineageDocument(<<Edge("A", "B"), Edge("B", "C")>>),
      LineageDocument(<<Edge("C", "A"), Edge("A", "B")>>),
      LineageDocument(<<Edge("B", "B")>>),
      LineageDocument(<<Edge("A", "B")>>),
      LineageDocument(<<Edge("B", "A"), SourceOnly("C")>>),
      LineageDocument(<<TargetOnly("C"), Edge("C", "B")>>),
      ErrorDocument(TextNotJson),
      EmptyObject,
      ListDocument,
      NotJsonFile,
      UnreadableFile }

Range(seq) == {seq[k] : k \in DOMAIN seq}

\* glob.glob: the files of the folder, each once, in no promised order.
GlobResults ==
    UNION {{fs \in [1..n -> ArtifactFiles] :
                \A a, b \in 1..n : fs[a] = fs[b] => a = b}
           : n \in 0..MaxFiles}

\* graph.get(node, [])
Get(graph, node) == IF node \in DOMAIN graph THEN graph[node] ELSE <<>>

\* An append that does not look for the value in the list.
AddToAlways(graph, key, value) ==
    [k \in DOMAIN graph \cup {key} |->
        IF k = key THEN Append(Get(graph, key), value) ELSE graph[k]]

\* "if value not in graph[key]: graph[key].append(value)" on a defaultdict(list)
AddTo(graph, key, value) ==
    [k \in DOMAIN graph \cup {key} |->
        IF k = key
        THEN IF value \in Range(Get(graph, key))
             THEN Get(graph, key)
             ELSE Append(Get(graph, key), value)
        ELSE graph[k]]

\* "for item in relationships": the maps after the loop, and whether an item
\* raised (KeyError on item['source'] or item['target']), which ends the loop.
RECURSIVE FoldItems(_, _, _)
FoldItems(fwd, rev, items) ==
    IF items = <<>> THEN [fwd |-> fwd, rev |-> rev, raised |-> FALSE]
    ELSE LET item == Head(items)
         IN  IF "source" \notin item.keys \/ "target" \notin item.keys
             THEN [fwd |-> fwd, rev |-> rev, raised |-> TRUE]
             ELSE FoldItems(AddTo(fwd, item.source, item.target),
                            AddTo(rev, item.target, item.source),
                            Tail(items))

\* The body of the try block for one file.
FoldFile(fwd, rev, file) ==
    IF file.kind # "dict"
    THEN [fwd |-> fwd, rev |-> rev, raised |-> TRUE]
    ELSE FoldItems(fwd, rev,
                   IF "lineage" \in file.keys THEN file.lineage ELSE <<>>)

Directions == {"DOWNSTREAM", "UPSTREAM"}

\* The names target_object.yaml may ask for: the nodes and one absent name.
TargetObjects == Nodes \cup {"Z"}

\* A frame of get_lineage_edges: its node, its relatives, and the position of
\* the for loop in them.
Frame(node, relatives) == [node |-> node, relatives |-> relatives, at |-> 1]

GraphInit ==
    /\ json_files \in GlobResults
    /\ next_file = 1
    /\ skipped_files = {}
    /\ forward_graph = <<>>
    /\ reverse_graph = <<>>
    /\ TARGET_OBJECT \in TargetObjects
    /\ DIRECTION \in Directions
    /\ gpc = "fold"
    /\ stack = <<>>
    /\ visited = {}
    /\ edges = <<>>
    /\ expanded = [n \in TargetObjects |-> 0]
    /\ df = <<>>
    /\ ceiling = MAX_CONCURRENT_REQUESTS
    /\ SEM = MAX_CONCURRENT_REQUESTS
    /\ permits = {}
    /\ folder = <<>>
    /\ processed_hashes = {}
    /\ pc = <<>>
    /\ result = <<>>
    /\ mainpc = "idle"
    /\ run = 1
    /\ prev = <<>>

\* One iteration of "for file_path in json_files".
FoldNextFile ==
    /\ gpc = "fold"
    /\ next_file <= Len(json_files)
    /\ LET r == FoldFile(forward_graph, reverse_graph, json_files[next_file])
       IN  /\ forward_graph' = r.fwd
           /\ reverse_graph' = r.rev
           /\ skipped_files' =
                  IF r.raised THEN skipped_files \cup {next_file}
                  ELSE skipped_files
    /\ next_file' = next_file + 1
    /\ UNCHANGED ovars
    /\ UNCHANGED <<json_files, TARGET_OBJECT, DIRECTION, gpc, stack, visited,
                   edges, expanded>>

\* The loop over the files is over.
FoldDone ==
    /\ gpc = "fold"
    /\ next_file > Len(json_files)
    /\ gpc' = "built"
    /\ UNCHANGED ovars
    /\ UNCHANGED <<json_files, next_file, skipped_files, forward_graph,
                   reverse_graph, TARGET_OBJECT, DIRECTION, stack, visited,
                   edges, expanded>>

\* The keys of the map the direction selects only (graph_to_check).
all_nodesOfDirection ==
    IF DIRECTION = "DOWNSTREAM" THEN DOMAIN forward_graph
    ELSE DOMAIN reverse_graph

all_nodes == DOMAIN forward_graph \cup DOMAIN reverse_graph

\* "if TARGET_OBJECT not in all_nodes": exit(1).
RootNotFound ==
    /\ gpc = "built"
    /\ TARGET_OBJECT \notin all_nodes
    /\ gpc' = "not_found"
    /\ UNCHANGED ovars
    /\ UNCHANGED <<json_files, next_file, skipped_files, forward_graph,
                   reverse_graph, TARGET_OBJECT, DIRECTION, stack, visited,
                   edges, expanded>>

\* A selection that takes the forward map whatever the direction.
GraphForwardOnly == forward_graph

\* The graph the direction selects.
Graph == IF DIRECTION = "DOWNSTREAM" THEN forward_graph ELSE reverse_graph

\* An entry check that never finds the node in the visited set.
IsVisitedNever(node) == FALSE

\* "if node in visited"
IsVisited(node) == node \in visited

\* Entering get_lineage_edges(node, ...): the state of the recursion after
\* the entry, given the stack and the edge list at the call.
Enter(node, stk, es) ==
    IF IsVisited(node)
    THEN /\ stack' = stk
         /\ visited' = visited
         /\ expanded' = expanded
         /\ edges' = es
    ELSE /\ stack' = Append(stk, Frame(node, Get(Graph, node)))
         /\ visited' = visited \cup {node}
         /\ expanded' = [expanded EXCEPT ![node] = @ + 1]
         /\ edges' = es

\* edges = get_lineage_edges(TARGET_OBJECT, DIRECTION)
TraversalStart ==
    /\ gpc = "built"
    /\ TARGET_OBJECT \in all_nodes
    /\ gpc' = "traversing"
    /\ Enter(TARGET_OBJECT, <<>>, <<>>)
    /\ UNCHANGED ovars
    /\ UNCHANGED <<json_files, next_file, skipped_files, forward_graph,
                   reverse_graph, TARGET_OBJECT, DIRECTION>>

\* An edge that always reads from the node to its relative.
EdgeForUnoriented(node, relative) == <<node, relative>>

\* The edge the loop body appends for a relative of node.
EdgeFor(node, relative) ==
    IF DIRECTION = "DOWNSTREAM" THEN <<node, relative>> ELSE <<relative, node>>

\* A loop body that appends the edge only toward a relative not yet visited.
TraversalStepUnvisitedOnly ==
    /\ gpc = "traversing"
    /\ stack # <<>>
    /\ LET top == stack[Len(stack)]
       IN  /\ top.at <= Len(top.relatives)
           /\ Enter(top.relatives[top.at],
                    [stack EXCEPT ![Len(stack)].at = @ + 1],
                    IF top.relatives[top.at] \in visited THEN edges
                    ELSE Append(edges,
                                EdgeFor(top.node, top.relatives[top.at])))
    /\ UNCHANGED ovars
    /\ UNCHANGED <<json_files, next_file, skipped_files, forward_graph,
                   reverse_graph, TARGET_OBJECT, DIRECTION, gpc>>

\* One iteration of "for relative in relatives" in the innermost frame: the
\* edge is appended and get_lineage_edges is entered for the relative.
TraversalStep ==
    /\ gpc = "traversing"
    /\ stack # <<>>
    /\ LET top == stack[Len(stack)]
       IN  /\ top.at <= Len(top.relatives)
           /\ Enter(top.relatives[top.at],
                    [stack EXCEPT ![Len(stack)].at = @ + 1],
                    Append(edges, EdgeFor(top.node, top.relatives[top.at])))
    /\ UNCHANGED ovars
    /\ UNCHANGED <<json_files, next_file, skipped_files, forward_graph,
                   reverse_graph, TARGET_OBJECT, DIRECTION, gpc>>

\* The loop of the innermost frame is over: "return edges".
TraversalReturn ==
    /\ gpc = "traversing"
    /\ stack # <<>>
    /\ stack[Len(stack)].at > Len(stack[Len(stack)].relatives)
    /\ stack' = SubSeq(stack, 1, Len(stack) - 1)
    /\ UNCHANGED ovars
    /\ UNCHANGED <<json_files, next_file, skipped_files, forward_graph,
                   reverse_graph, TARGET_OBJECT, DIRECTION, gpc, visited,
                   edges, expanded>>

\* The outermost call has returned: "if not edges": exit(0), else render.
TraversalEnd ==
    /\ gpc = "traversing"
    /\ stack = <<>>
    /\ gpc' = IF edges = <<>> THEN "no_dependencies" ELSE "rendered"
    /\ UNCHANGED ovars
    /\ UNCHANGED <<json_files, next_file, skipped_files, forward_graph,
                   reverse_graph, TARGET_OBJECT, DIRECTION, stack, visited,
                   edges, expanded>>

GraphNext ==
    \/ FoldNextFile
    \/ FoldDone
    \/ RootNotFound
    \/ TraversalStart
    \/ TraversalStep
    \/ TraversalReturn
    \/ TraversalEnd

GraphSpec == GraphInit /\ [][GraphNext]_vars

\* The script runs from its first line to an exit: every step that can be
\* taken is taken.
GraphFairSpec == GraphSpec /\ WF_vars(GraphNext)

(***************************************************************************)
(* Claims about the orchestrator.                                          *)
(***************************************************************************)
Running == mainpc \in {"gather", "complete"}

PairOf(i) == <<df[i].Schema, df[i].Object>>

InFlight == {i \in Tasks : pc[i] = "inflight"}

\* The tasks for which this run has issued the external generate call.
Called == {i \in Tasks : pc[i] \in {"inflight", "written", "failed"}}

\* The files of the folder written for record i.
ArtifactsOf(i) == {f \in DOMAIN folder : folder[f].by = PairOf(i)}

\* The files written for record i by the current run.
WrittenNowFor(i) == {f \in ArtifactsOf(i) : folder[f].run = run}

\* C1: after a run in which every external call returned, a further run over
\* the same source and the folder as that run left it issues no external
\* call, the key rebuilt from every written filename being the key of the
\* record that wrote it.
C1_SecondRunIssuesNoCall ==
    (run > 1 /\ Running /\ \A i \in Tasks : prev[i] = "written")
        => /\ Called = {}
           /\ \A f \in DOMAIN folder :
                 HashesOfFilename(f) =
                     {get_hash_for_object(folder[f].by[1], folder[f].by[2])}

\* C2: at most ceiling calls are in flight, and every call in flight belongs
\* to a task that holds a permit of SEM.
C2_BoundedConcurrency ==
    /\ Cardinality(InFlight) <= ceiling
    /\ InFlight \subseteq permits
    /\ SEM >= 0
    /\ Cardinality(permits) + SEM = ceiling

\* C2 witness: the ceiling is reached while another task waits for a permit.
C2_Witness ==
    /\ Cardinality(InFlight) = ceiling
    /\ \E i \in Tasks : pc[i] = "waiting"

\* C3: when a run completes, every record either had its call raise in this
\* run or has an artifact in the folder that was produced for that record.
C3_PostCondition ==
    mainpc = "complete"
        => \A i \in Tasks : pc[i] = "failed" \/ ArtifactsOf(i) # {}

\* C4: a record whose call raises gets no artifact in that run, and the next
\* run does not find it in the rebuilt index and calls for it again.
C4_FailedRecordIsRetried ==
    \A i \in Tasks :
        /\ (Running /\ pc[i] = "failed") => WrittenNowFor(i) = {}
        /\ (run > 1 /\ Running /\ prev[i] = "failed")
               => /\ KeyOf(i) \notin processed_hashes
                  /\ pc[i] # "skipped"
                  /\ (mainpc = "complete" => i \in Called)

\* C5: a task whose key is in the index built at the start of the run only
\* ever moves from start to skipped, and that step changes neither the
\* semaphore, nor the permit holders, nor the folder.
C5_SkipIsEffectFree ==
    [][ mainpc = "gather" =>
          \A i \in Tasks :
              (KeyOf(i) \in processed_hashes /\ pc'[i] # pc[i])
                  => /\ pc[i] = "start"
                     /\ pc'[i] = "skipped"
                     /\ SEM' = SEM
                     /\ permits' = permits
                     /\ folder' = folder ]_vars

\* C5 witness: a run in which one record was skipped and another written.
C5_Witness ==
    /\ mainpc = "complete"
    /\ \E i, j \in Tasks : pc[i] = "skipped" /\ pc[j] = "written"

\* C6: a response that is not JSON leaves exactly one artifact for the
\* record, an error marker that holds the returned text unchanged; the record
\* has ended, and the run completes with every record ended.
C6_MalformedResponseHandled ==
    /\ \A i \in Tasks :
          (Running /\ pc[i] = "written" /\ result[i] = TextNotJson)
              => /\ WrittenNowFor(i) = {FileOf(i)}
                 /\ "error" \in folder[FileOf(i)].doc.keys
                 /\ folder[FileOf(i)].doc.raw_response = result[i]
                 /\ Ended(i)
    /\ mainpc = "complete" => \A j \in Tasks : Ended(j)

\* C6 witness: a completed run in which one record got the text "not json"
\* and another record got its lineage written.
C6_Witness ==
    /\ mainpc = "complete"
    /\ \E i, j \in Tasks :
          /\ pc[i] = "written" /\ result[i] = TextNotJson
          /\ pc[j] = "written" /\ result[j] = TextLineage

\* C7: a response that parses as JSON but holds no lineage list is written
\* as an error-marker artifact.
C7_SchemaViolationIsErrorArtifact ==
    \A i \in Tasks :
        (Running /\ pc[i] = "written" /\ result[i] = TextEmptyObject)
            => "error" \in folder[FileOf(i)].doc.keys

(***************************************************************************)
(* Claims about the graph builder and the traversal.                       *)
(***************************************************************************)
IsEdgeItem(item) == "source" \in item.keys /\ "target" \in item.keys

\* data.get('lineage', []) of a file that json.load parsed into an object.
LineageOf(file) ==
    IF file.kind = "dict" /\ "lineage" \in file.keys THEN file.lineage ELSE <<>>

\* The pairs a map holds.
PairsOf(graph) ==
    UNION {{<<k, graph[k][p]>> : p \in DOMAIN graph[k]} : k \in DOMAIN graph}

\* The (source, target) pairs that occur in the lineage lists of the files.
EdgesIn(files) ==
    UNION {{<<LineageOf(files[k])[p].source, LineageOf(files[k])[p].target>> :
               p \in {q \in DOMAIN LineageOf(files[k]) :
                         IsEdgeItem(LineageOf(files[k])[q])}}
           : k \in DOMAIN files}

\* The pairs of a file that stand before its first item lacking a key.
EdgesBeforeFirstBadItem(file) ==
    {<<LineageOf(file)[p].source, LineageOf(file)[p].target>> :
        p \in {q \in DOMAIN LineageOf(file) :
                  \A r \in 1..q : IsEdgeItem(LineageOf(file)[r])}}

NoDuplicates(graph) ==
    \A k \in DOMAIN graph :
        \A p, q \in DOMAIN graph[k] : graph[k][p] = graph[k][q] => p = q

\* t in forward_graph[s] iff s in reverse_graph[t].
Mirrored ==
    PairsOf(forward_graph) = {<<e[2], e[1]>> : e \in PairsOf(reverse_graph)}

Folded == SubSeq(json_files, 1, next_file - 1)

IsWellFormed(file) ==
    /\ file.kind = "dict"
    /\ \A p \in DOMAIN LineageOf(file) : IsEdgeItem(LineageOf(file)[p])

\* The maps after folding the files in order, from empty maps.
RECURSIVE FoldAll(_, _, _)
FoldAll(fwd, rev, files) ==
    IF files = <<>> THEN [fwd |-> fwd, rev |-> rev]
    ELSE LET r == FoldFile(fwd, rev, Head(files))
         IN  FoldAll(r.fwd, r.rev, Tail(files))

SameMap(g, h) == DOMAIN g = DOMAIN h /\ \A k \in DOMAIN g : g[k] = h[k]

\* C9: the loop visits every file; the maps are those of folding only the
\* well-formed artifacts; an error-marker artifact raises nothing.
C9_MalformedArtifactsContributeNothing ==
    gpc # "fold"
        => /\ next_file = Len(json_files) + 1
           /\ LET good == FoldAll(<<>>, <<>>, SelectSeq(json_files, IsWellFormed))
              IN  /\ SameMap(forward_graph, good.fwd)
                  /\ SameMap(reverse_graph, good.rev)
           /\ \A k \in DOMAIN json_files :
                 "error" \in json_files[k].keys => k \notin skipped_files

\* The nodes reachable from the nodes of S along graph.
RECURSIVE Closure(_, _)
Closure(graph, S) ==
    LET T == S \cup UNION {Range(Get(graph, n)) : n \in S}
    IN  IF T = S THEN S ELSE Closure(graph, T)

TraversalEnded == gpc \in {"no_dependencies", "rendered"}

ScriptEnded == gpc \in {"not_found", "no_dependencies", "rendered"}

CycleABC == [n \in {"A", "B", "C"} |->
                IF n = "A" THEN <<"B">> ELSE IF n = "B" THEN <<"C">> ELSE <<"A">>]

\* What C10 says of every state: no node is expanded twice; when the
\* traversal has ended the expanded nodes are the nodes reachable from the
\* root, each once; on the cycle A->B->C->A, DOWNSTREAM from A, the result is
\* the three edges of the cycle.
C10_ExpandedOnce ==
    /\ \A n \in TargetObjects : expanded[n] <= 1
    /\ TraversalEnded
          => /\ \A n \in TargetObjects :
                   expanded[n] =
                       IF n \in Closure(Graph, {TARGET_OBJECT}) THEN 1 ELSE 0
             /\ (/\ SameMap(forward_graph, CycleABC)
                 /\ TARGET_OBJECT = "A"
                 /\ DIRECTION = "DOWNSTREAM")
                    => edges = <<<<"A", "B">>, <<"B", "C">>, <<"C", "A">>>>

\* C10: get_lineage_edges terminates on every folded graph, cyclic or not,
\* from every root in both directions, having expanded each node reachable
\* from the root exactly once and no other node; on the cycle A->B->C->A a
\* DOWNSTREAM traversal from A returns exactly 3 edges.
C10_TraversalTerminates == []C10_ExpandedOnce /\ <>ScriptEnded

\* C10 witness: the traversal of the cycle A->B->C->A from A, DOWNSTREAM, has
\* ended with 3 edges.
C10_Witness ==
    /\ gpc = "rendered"
    /\ SameMap(forward_graph, CycleABC)
    /\ TARGET_OBJECT = "A"
    /\ DIRECTION = "DOWNSTREAM"
    /\ Len(edges) = 3
    /\ visited = {"A", "B", "C"}

GraphAB == [n \in {"A"} |-> <<"B">>]

\* C11: every pair of the edge list is an edge of the folded graph read from
\* source to target, whatever the direction; on the graph A->B, DOWNSTREAM
\* from A and UPSTREAM from B both return exactly [(A, B)].
C11_EdgesReadSourceToTarget ==
    /\ Range(edges) \subseteq PairsOf(forward_graph)
    /\ (TraversalEnded /\ SameMap(forward_graph, GraphAB))
          => /\ (DIRECTION = "DOWNSTREAM" /\ TARGET_OBJECT = "A")
                    => edges = <<<<"A", "B">>>>
             /\ (DIRECTION = "UPSTREAM" /\ TARGET_OBJECT = "B")
                    => edges = <<<<"A", "B">>>>

\* C11 witness: the UPSTREAM traversal from B on the graph A->B has ended
\* with the one edge (A, B).
C11_Witness ==
    /\ gpc = "rendered"
    /\ SameMap(forward_graph, GraphAB)
    /\ DIRECTION = "UPSTREAM"
    /\ TARGET_OBJECT = "B"
    /\ edges = <<<<"A", "B">>>>

\* C12: a root that is a key of neither map ends the script in the not-found
\* outcome before any traversal step; a root that is a key of either map is
\* traversed, and ends in the no-dependencies outcome with an empty edge list
\* exactly when it has no neighbour in the chosen direction.
C12_MissingRootVersusEmpty ==
    LET keys == DOMAIN forward_graph \cup DOMAIN reverse_graph
    IN  /\ gpc = "not_found"
              => /\ TARGET_OBJECT \notin keys
                 /\ visited = {} /\ edges = <<>> /\ stack = <<>>
                 /\ \A n \in DOMAIN expanded : expanded[n] = 0
        /\ gpc \in {"traversing", "no_dependencies", "rendered"}
              => TARGET_OBJECT \in keys
        /\ gpc = "no_dependencies"
              => edges = <<>> /\ Get(Graph, TARGET_OBJECT) = <<>>
        /\ gpc = "rendered"
              => edges # <<>> /\ Get(Graph, TARGET_OBJECT) # <<>>

\* C12 witness: the root is a key of the other map only and the script ended
\* in the no-dependencies outcome.
C12_Witness ==
    /\ gpc = "no_dependencies"
    /\ TARGET_OBJECT \in DOMAIN forward_graph \cup DOMAIN reverse_graph
    /\ TARGET_OBJECT \notin DOMAIN Graph
    /\ edges = <<>>

\* The sum of the lengths of the lists graph holds for the nodes of S.
RECURSIVE SumLens(_, _)
SumLens(graph, S) ==
    IF S = {} THEN 0
    ELSE LET n == CHOOSE x \in S : TRUE
         IN  Len(Get(graph, n)) + SumLens(graph, S \ {n})

\* The loop iterations the frames of the stack have done so far.
RECURSIVE IterationsDone(_)
IterationsDone(stk) ==
    IF stk = <<>> THEN 0 ELSE (Head(stk).at - 1) + IterationsDone(Tail(stk))

OnStack == {stack[k].node : k \in DOMAIN stack}

\* C13 as stated: an edge is appended only toward a neighbour that is not in
\* the visited set at that moment, so the result holds exactly one edge per
\* reachable node other than the root.
C13_EdgesOnlyTowardUnvisited ==
    /\ [][ (gpc = "traversing" /\ edges' # edges)
              => stack[Len(stack)].relatives[stack[Len(stack)].at]
                     \notin visited ]_vars
    /\ [](TraversalEnded
            => Len(edges) = Cardinality(Closure(Graph, {TARGET_OBJECT})) - 1)

\* C13 amended: an edge is appended for every neighbour of every expanded
\* node, visited or not (only the recursion into a visited neighbour is cut):
\* at every moment the list holds one edge per finished loop iteration, and
\* at the end one edge per entry of the adjacency lists of the nodes
\* reachable from the root.
C13_OneEdgePerNeighbour ==
    /\ gpc = "traversing"
          => Len(edges) = IterationsDone(stack)
                              + SumLens(Graph, visited \ OnStack)
    /\ TraversalEnded
          => Len(edges) = SumLens(Graph, Closure(Graph, {TARGET_OBJECT}))

\* C13 witness: a traversal has ended with more edges than reachable nodes
\* other than the root: an edge toward a visited node was recorded.
C13_Witness ==
    /\ gpc = "rendered"
    /\ Len(edges) > Cardinality(visited) - 1
    /\ visited = Closure(Graph, {TARGET_OBJECT})

(***************************************************************************)
(* The process killed while process_row writes the artifact.               *)
(***************************************************************************)
\* What the file holds when the process dies between open(file_path, "w")
\* and the end of json.dump: nothing, or a prefix of the document.
EmptyFile ==
    [kind |-> "empty", keys |-> {}, lineage |-> <<>>, raw_response |-> ""]
TruncatedFile ==
    [kind |-> "truncated", keys |-> {}, lineage |-> <<>>, raw_response |-> ""]

IncompleteFiles == {EmptyFile, TruncatedFile}

\* client.generate has returned and the process dies inside the "with open"
\* block: the file is there, its content is incomplete, every task is gone.
CrashDuringWrite(i, text, content) ==
    /\ mainpc = "gather"
    /\ pc[i] = "inflight"
    /\ result' = [result EXCEPT ![i] = text]
    /\ folder' = WriteFile(folder, FileOf(i), File(content, i))
    /\ mainpc' = "crashed"
    /\ UNCHANGED gvars
    /\ UNCHANGED <<df, ceiling, SEM, permits, processed_hashes, pc, run, prev>>

\* The script is started again after the crash: a new process, a new SEM.
RestartAfterCrash ==
    /\ mainpc = "crashed"
    /\ run < MaxRuns
    /\ run' = run + 1
    /\ prev' = pc
    /\ SEM' = ceiling
    /\ permits' = {}
    /\ mainpc' = "idle"
    /\ UNCHANGED gvars
    /\ UNCHANGED <<df, ceiling, folder, processed_hashes, pc, result>>

CrashNext ==
    \/ Next
    \/ \E i \in Tasks, text \in ResponseTexts, content \in IncompleteFiles :
          CrashDuringWrite(i, text, content)
    \/ RestartAfterCrash

CrashSpec == Init /\ [][CrashNext]_vars

IsCompleteFile(file) == file.doc \notin IncompleteFiles

\* C14: no state of the output folder, the one a crash inside the write
\* leaves included, holds an artifact file with empty or truncated content,
\* and the index the next run builds counts no filename whose file is not a
\* complete document.
C14_CrashSafeWrite ==
    /\ \A f \in DOMAIN folder : IsCompleteFile(folder[f])
    /\ mainpc = "gather"
          => \A f \in DOMAIN folder :
                HashesOfFilename(f) \subseteq processed_hashes
                    /\ HashesOfFilename(f) # {}
                    => IsCompleteFile(folder[f])

\* C15: when main creates the tasks the filenames of distinct records are
\* distinct; during the run a record that has written its artifact stays
\* written; the folder changes in no step but the one in which a task's call
\* returns, and that step writes the task's own filename only, a file no
\* record has written in this run.
C15_WriteOnceNoContention ==
    [][ /\ (mainpc = "idle" /\ mainpc' = "gather")
             => \A i, j \in Tasks : (i # j) => (FileOf(i) # FileOf(j))
        /\ (mainpc = "gather")
             => /\ \A i \in Tasks : (pc[i] = "written") => (pc'[i] = "written")
                /\ IF \E i \in Tasks : pc[i] = "inflight" /\ pc'[i] = "written"
                   THEN \E i \in Tasks :
                          /\ pc[i] = "inflight" /\ pc'[i] = "written"
                          /\ LET name == FileOf(i)
                             IN  /\ DOMAIN folder' = DOMAIN folder \cup {name}
                                 /\ \A f \in DOMAIN folder \ {name} :
                                       folder'[f] = folder[f]
                                 /\ (name \in DOMAIN folder)
                                       => (folder[name].run # run)
                                 /\ folder'[name].run = run
                                 /\ folder'[name].by = PairOf(i)
                   ELSE folder' = folder
      ]_vars

\* C15 witness: a run has ended in which the records "a" and "a.", whose
\* names differ only by a character the sanitiser removes, have both written,
\* each file still holding what its own record wrote in this run.
C15_Witness ==
    /\ mainpc = "complete"
    /\ \E i, j \in Tasks :
          /\ df[i].Object = <<"a">> /\ df[j].Object = <<"a", ".">>
          /\ pc[i] = "written" /\ pc[j] = "written"
          /\ folder[FileOf(i)] = File(response_data(result[i]), i)
          /\ folder[FileOf(j)] = File(response_data(result[j]), j)

(***************************************************************************)
(* The event loop runs every task that can run, and every external call    *)
(* returns or raises.                                                      *)
(***************************************************************************)
\* The event loop runs a task that can run, and gather returns when it can.
Scheduled ==
    \/ \E i \in Tasks : TaskSkip(i)
    \/ \E i \in Tasks : TaskWait(i)
    \/ \E i \in Tasks : TaskCall(i)
    \/ MainEnd

\* A call in flight ends.  CallReturns(i, text) and CallRaises(i) are enabled
\* in the same states and either one disables both, so weak fairness of the
\* raise says exactly that no call stays in flight for ever.
CallEnds == \E i \in Tasks : CallRaises(i)

FairSpec == Spec /\ WF_vars(Scheduled) /\ WF_vars(CallEnds)

\* C16: once main has created the tasks, every task ends and gather returns,
\* whatever the outcomes of the records; in every state the free permits and
\* the tasks inside the block add up to the ceiling, a task that has ended
\* (by a written artifact or by a raised call) holds no permit, and when main
\* completes all permits are free.
C16_BatchCompletes ==
    /\ (mainpc = "gather") ~> (mainpc = "complete")
    /\ [](/\ SEM + Cardinality(permits) = ceiling
          /\ \A i \in Tasks : Ended(i) => i \notin permits
          /\ mainpc = "complete"
                => /\ \A i \in Tasks : Ended(i)
                   /\ SEM = ceiling /\ permits = {})

\* C16 witness: main has completed a run in which one call raised and
\* another record's artifact was written, and every permit is free.
C16_Witness ==
    /\ mainpc = "complete"
    /\ \E i, j \in Tasks : pc[i] = "failed" /\ pc[j] = "written"
    /\ SEM = ceiling
    /\ permits = {}

(***************************************************************************)
(* get_lineage_edges as a function of the maps, for comparing two runs of  *)
(* the graph script over the same folder.                                  *)
(***************************************************************************)
\* get_lineage_edges(node, direction, visited, edges) on the graph given:
\* Visit is the call, VisitRelatives the loop from position at on; st is the
\* visited set and the edge list the recursion shares.
RECURSIVE Visit(_, _, _)
RECURSIVE VisitRelatives(_, _, _, _)
Visit(graph, node, st) ==
    IF node \in st.visited THEN st
    ELSE VisitRelatives(graph, node, 1,
                        [st EXCEPT !.visited = @ \cup {node}])

VisitRelatives(graph, node, at, st) ==
    IF at > Len(Get(graph, node)) THEN st
    ELSE LET relative == Get(graph, node)[at]
         IN  VisitRelatives(graph, node, at + 1,
                 Visit(graph, relative,
                       [st EXCEPT !.edges = Append(@, EdgeFor(node, relative))]))

\* The edge list of a run of the script in which glob returns files: the
\* fold of lines 34-55, the graph DIRECTION selects, the call of line 106.
EdgesOfRun(files) ==
    LET maps == FoldAll(<<>>, <<>>, files)
        graph == IF DIRECTION = "DOWNSTREAM" THEN maps.fwd ELSE maps.rev
    IN  Visit(graph, TARGET_OBJECT, [visited |-> {}, edges |-> <<>>]).edges

\* The orders in which glob can return the files it returned in this run.
Reorderings(files) ==
    {[k \in DOMAIN files |-> files[p[k]]] :
        p \in {q \in [DOMAIN files -> DOMAIN files] :
                   \A a, b \in DOMAIN files : q[a] = q[b] => a = b}}

\* C17: the edge list of a traversal is the one every fold of the same set
\* of artifact files, taken in any file order, gives from the same root in
\* the same direction.
C17_OutputIndependentOfFileOrder ==
    TraversalEnded
        => \A files \in Reorderings(json_files) : EdgesOfRun(files) = edges

\* The function gives the edge list of the run it is compared with.
EdgesOfRunIsThisRun == TraversalEnded => EdgesOfRun(json_files) = edges

(***************************************************************************)
(* Names that carry bracket decoration.  Here a node name is the sequence  *)
(* of its characters, as the names of the orchestrator are.                *)
(***************************************************************************)
PlainA == <<"A">>
PlainB == <<"B">>
BracketedA == <<"[", "A", "]">>
BracketedB == <<"[", "B", "]">>

DecoratedNames == {PlainA, PlainB, BracketedA, BracketedB}

\* Artifact files whose names differ by brackets only, and files that hold
\* no bracket.  json.load parses every one of them.
DecoratedFiles ==
    { LineageDocument(<<Edge(BracketedA, PlainB)>>),
      LineageDocument(<<Edge(PlainA, PlainB)>>),
      LineageDocument(<<Edge(PlainA, BracketedB)>>),
      LineageDocument(<<Edge(PlainB, PlainA), TargetOnly(BracketedA)>>),
      EmptyObject }

DecoratedGlobResults ==
    UNION {{fs \in [1..n -> DecoratedFiles] :
                \A a, b \in 1..n : fs[a] = fs[b] => a = b}
           : n \in 0..MaxFiles}

\* .replace("[", "").replace("]", "")
CleanName(name) == Replace(Replace(name, <<"[">>, <<>>), <<"]">>, <<>>)

\* json_cleaner.py on one item and on one file.
CleanItem(item) ==
    [item EXCEPT !.source = IF "source" \in item.keys THEN CleanName(@) ELSE @,
                 !.target = IF "target" \in item.keys THEN CleanName(@) ELSE @]

CleanFile(file) ==
    IF "lineage" \in file.keys
    THEN [file EXCEPT !.lineage = [k \in DOMAIN @ |-> CleanItem(@[k])]]
    ELSE file

\* json_cleaner.py is run over the folder before the graph script reads it.
\* It is a script of its own: nothing makes the graph script wait for it.
JsonCleaner ==
    /\ gpc = "fold"
    /\ next_file = 1
    /\ json_files' = [k \in DOMAIN json_files |-> CleanFile(json_files[k])]
    /\ json_files' # json_files
    /\ UNCHANGED ovars
    /\ UNCHANGED <<next_file, skipped_files, forward_graph, reverse_graph,
                   TARGET_OBJECT, DIRECTION, gpc, stack, visited, edges,
                   expanded>>

DecoratedInit ==
    /\ json_files \in DecoratedGlobResults
    /\ next_file = 1
    /\ skipped_files = {}
    /\ forward_graph = <<>>
    /\ reverse_graph = <<>>
    /\ TARGET_OBJECT \in DecoratedNames
    /\ DIRECTION \in Directions
    /\ gpc = "fold"
    /\ stack = <<>>
    /\ visited = {}
    /\ edges = <<>>
    /\ expanded = [n \in DecoratedNames |-> 0]
    /\ df = <<>>
    /\ ceiling = MAX_CONCURRENT_REQUESTS
    /\ SEM = MAX_CONCURRENT_REQUESTS
    /\ permits = {}
    /\ folder = <<>>
    /\ processed_hashes = {}
    /\ pc = <<>>
    /\ result = <<>>
    /\ mainpc = "idle"
    /\ run = 1
    /\ prev = <<>>

DecoratedNext == GraphNext \/ JsonCleaner

DecoratedSpec == DecoratedInit /\ [][DecoratedNext]_vars

\* The names a map holds, as keys or in its lists.
NamesOf(graph) == DOMAIN graph \cup UNION {Range(graph[k]) : k \in DOMAIN graph}

\* C18: the fold normalises names: the maps never hold two names that differ
\* by bracket decoration only, so a decorated and an undecorated form of one
\* name are one node and give one edge.
C18_FoldNormalizesNames ==
    \A n, m \in NamesOf(forward_graph) \cup NamesOf(reverse_graph) :
        CleanName(n) = CleanName(m) => n = m

(***************************************************************************)
(* The scan for completed records over a folder that holds files of any    *)
(* name: files of other scripts that write into lineage_outputs, files     *)
(* put there by hand.                                                      *)
(***************************************************************************)
\* The filenames os.listdir may return.
NameWellShaped == <<"0", "-", "-", "s", "-", "-", "a", ".", "j", "s", "o", "n">>
NameExtraSeparator ==
    <<"0", "-", "-", "s", "-", "-", "a", "-", "-", "b", ".", "j", "s", "o", "n">>
NameNotNumeric == <<"x", "-", "-", "s", "-", "-", "b", ".", "j", "s", "o", "n">>
NameNoOrdinal == <<"-", "-", "s", "-", "-", "b", ".", "j", "s", "o", "n">>
NameTwoParts == <<"0", "-", "-", "s", ".", "j", "s", "o", "n">>
NameNoSuffix == <<"0", "-", "-", "s", "-", "-", "a">>
NameNoSeparator == <<"a", ".", "j", "s", "o", "n">>

ListedNames ==
    {NameWellShaped, NameExtraSeparator, NameNotNumeric, NameNoOrdinal,
     NameTwoParts, NameNoSuffix, NameNoSeparator}

\* A file no process_row of these runs wrote.
ForeignFile == [doc |-> EmptyObject, by |-> <<>>, run |-> 0]

\* main over an empty source table and a folder that holds any of the names.
ScanInit ==
    /\ GraphIdle
    /\ df = <<>>
    /\ ceiling = MAX_CONCURRENT_REQUESTS
    /\ SEM = ceiling
    /\ permits = {}
    /\ folder \in {[f \in names |-> ForeignFile] : names \in SUBSET ListedNames}
    /\ processed_hashes = {}
    /\ pc = <<>>
    /\ result = <<>>
    /\ mainpc = "idle"
    /\ run = 1
    /\ prev = <<>>

ScanNext == MainStart \/ MainEnd \/ NextRun

ScanSpec == ScanInit /\ [][ScanNext]_vars

\* {ordinal}--{schema}--{object}.json: the suffix, exactly two separators,
\* an ordinal of one or more digits.
IsWellShaped(filename) ==
    /\ EndsWith(filename, DotJson)
    /\ LET parts == Split(SubSeq(filename, 1, Len(filename) - Len(DotJson)), Sep)
       IN  /\ Len(parts) = 3
           /\ parts[1] # <<>>
           /\ \A k \in DOMAIN parts[1] : parts[1][k] \in Range(DigitChars)

\* C19: the scan raises on no set of filenames, and the index it returns
\* holds the keys of the well-shaped filenames only: a name with an extra
\* separator or with a first part that is no number adds nothing.
C19_ScanAcceptsOnlyWellShaped ==
    mainpc \in {"gather", "complete"}
        => processed_hashes
              = UNION {HashesOfFilename(f) :
                          f \in {g \in DOMAIN folder : IsWellShaped(g)}}

\* C20: from the moment main has built the index to the end of the run no
\* step changes processed_hashes, whatever it writes into the folder; and
\* whether a task skips is decided by the index alone: a task skips only
\* when its key is in it, and takes a permit only when it is not.
C20_IndexFrozenDuringRun ==
    [][ (mainpc \in {"gather", "complete"})
          => /\ (mainpc' # "idle") => (processed_hashes' = processed_hashes)
             /\ \A i \in Tasks :
                   /\ (pc[i] = "start" /\ pc'[i] = "skipped")
                         => (KeyOf(i) \in processed_hashes)
                   /\ (pc[i] = "start" /\ pc'[i] \in {"waiting", "inflight"})
                         => (KeyOf(i) \notin processed_hashes)
      ]_vars

\* C20 witness: during a run a task has written a file whose key the index
\* does not hold: the folder has moved on, the index has not.
C20_Witness ==
    /\ mainpc = "gather"
    /\ \E i \in Tasks :
          /\ pc[i] = "written"
          /\ HashesOfFilename(FileOf(i)) # {}
          /\ ~(HashesOfFilename(FileOf(i)) \subseteq processed_hashes)
    /\ build_processed_hashes(DOMAIN folder) # processed_hashes

\* The pairs the claim names: the edges of the maps that touch, in the
\* direction asked for, a node reachable from the root.
DownstreamPairs ==
    UNION {{<<s, t>> : t \in Range(Get(forward_graph, s))}
           : s \in Closure(forward_graph, {TARGET_OBJECT})}

UpstreamPairs ==
    UNION {{<<s, t>> : s \in Range(Get(reverse_graph, t))}
           : t \in Closure(reverse_graph, {TARGET_OBJECT})}

\* C21: the edge list never holds a pair twice, and when get_lineage_edges
\* has returned its set of pairs is DownstreamPairs for DOWNSTREAM and
\* UpstreamPairs for UPSTREAM.
C21_TraversalComplete ==
    /\ Cardinality(Range(edges)) = Len(edges)
    /\ TraversalEnded
          => Range(edges) = IF DIRECTION = "DOWNSTREAM" THEN DownstreamPairs
                            ELSE UpstreamPairs

\* C21 witness: an UPSTREAM traversal has returned from a root that reaches
\* only a part of the graph: the maps hold a pair the list leaves out, and
\* the list holds three pairs or more.
C21_Witness ==
    /\ gpc = "rendered"
    /\ DIRECTION = "UPSTREAM"
    /\ Len(edges) >= 3
    /\ Range(edges) = UpstreamPairs
    /\ PairsOf(forward_graph) \ Range(edges) # {}

====
